---- MODULE Spec2Model ----
(***************************************************************************)
(* Tab Hero: the tab-set store (TabStorage), the file it persists to, and  *)
(* the queries the commands of extension.js build on.                      *)
(*                                                                         *)
(* JavaScript values are modelled as follows.  null is the string Null,    *)
(* undefined is the string Undefined, an object is a record whose DOMAIN   *)
(* is its set of keys (a key the object does not carry is not in the       *)
(* DOMAIN, and reading it gives Undefined, see Get), an array is a         *)
(* sequence.  Date.now() is the variable now, in milliseconds.             *)
(***************************************************************************)
EXTENDS Integers, Sequences, FiniteSets, TLC

VARIABLES
    storageFile,    \* TabStorage.storageFile: Null, or the path of tab-hero.json
    file,           \* the content of <workspace>/.vscode/tab-hero.json on disk
    now,            \* the clock reading, Date.now()
    faults,         \* whether the file system may refuse a write in this run
    last,           \* the last store call: its arguments, result and the file before it
    contexts,       \* per window on the workspace: the store call it is in the middle of
    host,           \* the editor: workspace folder, settings, git branch, open tabs
    commands,       \* per command invocation in flight: where it is and what it holds
    calls           \* the mutating store calls the commands made, in call order

vars == <<storageFile, file, now, faults, last, contexts, host, commands, calls>>

\* the variables of the editor and its commands, which the store does not touch
editor == <<host, commands, calls>>

(***************************************************************************)
(* Bounds of the model.                                                    *)
(***************************************************************************)
MaxSets == 2        \* saveTabSet is not called on a document already holding this many sets
MaxClock == 1       \* the clock stops advancing here
MaxCalls == 2       \* mutating calls a window makes next to another window

(***************************************************************************)
(* JavaScript values.                                                      *)
(***************************************************************************)
Null == "null"
Undefined == "undefined"

\* obj[key]: Undefined for a key the object does not carry
Get(obj, key) == IF key \in DOMAIN obj THEN obj[key] ELSE Undefined

\* truthiness of a string-or-null-or-undefined value
Truthy(v) == v \notin {Null, Undefined, ""}

Digit(d) == <<"0", "1", "2", "3", "4", "5", "6", "7", "8", "9">>[d + 1]

RECURSIVE NumberToString(_)
\* Number.prototype.toString of a non-negative integer: its decimal digits
NumberToString(n) ==
    IF n < 10 THEN <<Digit(n)>>
    ELSE Append(NumberToString(n \div 10), Digit(n % 10))

\* Date.prototype.toISOString of a time in ms, kept as its seconds and milliseconds fields
ToISOString(t) == [sec |-> t \div 1000, ms |-> t % 1000]

\* new Date(isoString) as a number of ms
DateOf(iso) == iso.sec * 1000 + iso.ms

\* vscode.Uri.prototype.toString
UriToString(uri) == <<uri.scheme, "://", uri.path>>

RECURSIVE Filter(_, _)
\* Array.prototype.filter with the predicate given as the set of elements it keeps
Filter(seq, keep) ==
    IF seq = <<>> THEN <<>>
    ELSE IF Head(seq) \in keep THEN <<Head(seq)>> \o Filter(Tail(seq), keep)
    ELSE Filter(Tail(seq), keep)

\* the elements of an array, as a set
Elems(seq) == {seq[i] : i \in 1..Len(seq)}

\* Array.prototype.includes
Includes(seq, x) == x \in Elems(seq)

\* FindIndex falling back to the first set when no id matches
FindIndexOrFirst(tabSets, id) ==
    IF \E i \in 1..Len(tabSets) : Get(tabSets[i], "id") = id
    THEN CHOOSE i \in 1..Len(tabSets) :
            /\ Get(tabSets[i], "id") = id
            /\ \A j \in 1..(i - 1) : Get(tabSets[j], "id") # id
    ELSE IF Len(tabSets) > 0 THEN 1 ELSE 0

\* Array.prototype.find(set => set.id === id): the index of the first match, 0 if none
FindIndex(tabSets, id) ==
    IF \E i \in 1..Len(tabSets) : Get(tabSets[i], "id") = id
    THEN CHOOSE i \in 1..Len(tabSets) :
            /\ Get(tabSets[i], "id") = id
            /\ \A j \in 1..(i - 1) : Get(tabSets[j], "id") # id
    ELSE 0

(***************************************************************************)
(* The file on disk and the document.                                      *)
(***************************************************************************)
EmptyData == [tabSets |-> <<>>, favorites |-> <<>>]

\* no file at the path
Missing == [kind |-> "missing", data |-> EmptyData]

\* a file whose text JSON.parse rejects
Corrupt == [kind |-> "corrupt", data |-> EmptyData]

\* the keys of the document's objects whose value is a string, null or undefined
StringKeys == {"name", "branch", "scope", "fileName", "languageId"}

\* JsonObject that leaves out the keys whose value is null as well
JsonObjectWithoutNulls(obj) ==
    [k \in {x \in DOMAIN obj :
                ~(x \in StringKeys /\ obj[x] \in {Undefined, Null})} |-> obj[k]]

\* JSON.parse of the text JSON.stringify writes for an object: a key whose value is
\* undefined is not written, every other key comes back with its value
JsonObject(obj) ==
    [k \in {x \in DOMAIN obj : ~(x \in StringKeys /\ obj[x] = Undefined)} |-> obj[k]]

\* the same for a tab set, whose tabs are an array of objects
JsonTabSet(tabSet) ==
    LET obj == JsonObject(tabSet)
    IN [k \in DOMAIN obj |->
            IF k = "tabs"
            THEN [i \in 1..Len(obj.tabs) |-> JsonObject(obj.tabs[i])]
            ELSE obj[k]]

\* the same for a document, whose tabSets are an array of tab sets
JsonDocument(data) ==
    [k \in DOMAIN data |->
        IF k = "tabSets"
        THEN [i \in 1..Len(data.tabSets) |-> JsonTabSet(data.tabSets[i])]
        ELSE data[k]]

\* JSON.stringify(data, null, 2) written as the text of the file.  The text is kept as
\* what JSON.parse makes of it, which is all the store ever does with it
JsonFile(data) == [kind |-> "json", data |-> JsonDocument(data)]

\* a file that holds the text of data and that the process may write but not read
\* (readFileSync throws EACCES, writeFileSync replaces the text)
Unreadable(data) == [kind |-> "unreadable", data |-> JsonDocument(data)]

\* fs.existsSync(this.storageFile), asked of the file f
ExistsSync(f) == f.kind # "missing"

\* ReadFrom without the failure of readFileSync on a null path
ReadFromAnyPath(sf, f) == IF f.kind = "json" THEN f.data ELSE EmptyData

\* TabStorage.readData on the file f by a store whose storageFile is sf: the parsed
\* file, the empty document when readFileSync or JSON.parse throws
ReadFrom(sf, f) == IF sf # Null /\ f.kind = "json" THEN f.data ELSE EmptyData

\* TabStorage.readData
ReadData == ReadFrom(storageFile, file)

\* what TabStorage.writeData returns; ok is whether writeFileSync succeeds on a path
\* (it throws, and writeData returns false, when storageFile is null)
WriteReturns(ok) == storageFile # Null /\ ok

\* WriteData that returns what it should and leaves the file as it is
WriteDataDropped(data, ok) == file

\* TabStorage.writeData: the file after the call
WriteData(data, ok) ==
    IF WriteReturns(ok)
    THEN IF file.kind = "unreadable" THEN Unreadable(data) ELSE JsonFile(data)
    ELSE file

\* the outcomes of fs.writeFileSync in this run
WriteOutcomes == IF faults THEN BOOLEAN ELSE {TRUE}

\* data.tabSets of a parsed document that has no tabSets array is undefined, and
\* calling a method on it throws a TypeError
NoTabSets(data) == "tabSets" \notin DOMAIN data

\* the same for data.favorites
NoFavorites(data) == "favorites" \notin DOMAIN data

\* (data.tabSets || [])
TabSetsOrEmpty(data) == IF NoTabSets(data) THEN <<>> ELSE data.tabSets

(***************************************************************************)
(* Inputs.                                                                 *)
(***************************************************************************)
Names == {"n1", "n2"}
Branches == {"b1", "b2"}
Scopes == {"project", "branch"}

\* the branch argument of saveTabSet: gitHelper found none, or found b1
SaveBranches == {Undefined, "b1"}

Tab1 == [uri |-> [scheme |-> "file", path |-> "/a.js"], fileName |-> "a.js",
         languageId |-> "javascript", relativePath |-> "a.js"]
Tab2 == [uri |-> [scheme |-> "file", path |-> "/src/b.md"], fileName |-> "b.md",
         languageId |-> "markdown", relativePath |-> "src/b.md"]

\* the tab lists handed to saveTabSet: none, and one with an order and a repetition
TabLists == {<<>>, <<Tab2, Tab1, Tab2>>}

\* the ids a caller can pass: every id the clock can produce, and one no set carries
IdArgs == {NumberToString(t) : t \in 0..MaxClock} \cup {<<"nonexistent-id">>}

(***************************************************************************)
(* The record of the last store call.  again says that the call before it  *)
(* was the same operation on the same id; prevRet and before2 are then     *)
(* that call's result and the file before it.  failed says that the call   *)
(* handed the document to writeData and writeData returned false.          *)
(***************************************************************************)
NoCall == [op |-> "none", id |-> <<>>, name |-> Null, branch |-> Null, given |-> <<>>,
           ret |-> FALSE, out |-> <<>>, threw |-> FALSE, failed |-> FALSE,
           before |-> Missing,
           again |-> FALSE, prevRet |-> FALSE, before2 |-> Missing]

Repeatable == {"toggle", "delete"}

Call(op, id) ==
    LET again == op \in Repeatable /\ last.op = op /\ last.id = id /\ ~last.threw
    IN [NoCall EXCEPT !.op = op, !.id = id, !.before = file,
                      !.again = again,
                      !.prevRet = IF again THEN last.ret ELSE FALSE,
                      !.before2 = IF again THEN last.before ELSE Missing]

\* the call ended in an exception that reaches the caller
Threw(op, id) == [Call(op, id) EXCEPT !.threw = TRUE]

(***************************************************************************)
(* Two extension hosts can have the same workspace folder open.  Each has  *)
(* its own TabStorage on the same tab-hero.json; a call of one is          *)
(* synchronous, but its readFileSync and its writeFileSync are two steps   *)
(* for the other.  A context records the call it is in, or has finished.   *)
(***************************************************************************)
Contexts == {"A", "B"}

\* a context that made no call yet; calls counts the calls it entered, pc is "new", "read" (readData returned, writeData
\* not yet called) or "done"; latest says that the file's last write was this context's
NotCalled == [pc |-> "new", calls |-> 0, op |-> "none", id |-> <<>>, name |-> Null,
              isFavorite |-> FALSE, data |-> EmptyData, tabSet |-> <<>>, t |-> 0,
              wrote |-> EmptyData, over |-> Missing, latest |-> FALSE]

(***************************************************************************)
(* The editor.  host is what the commands ask the editor for; a command    *)
(* invocation runs in a slot, from one await to the next in one step.      *)
(***************************************************************************)
Slots == {"s1", "s2"}

\* an editor in which no command of the extension is run
NoHost == [workspace |-> Null,
           config |-> [enableGitBranchScoping |-> TRUE, enableFileSelection |-> TRUE,
                       enableNaming |-> TRUE, enableFavorites |-> TRUE],
           branch |-> Null, tabs |-> <<>>, started |-> 0]

\* a slot in which no command runs; trace lists the prompts shown and the store save
\* and tab closes done, callNo is the number of the store call the command made,
\* atStart is the file when the command started, cancelled says that the user
\* dismissed a prompt of the command or selected no file
Idle == [cmd |-> "none", pc |-> "idle", currentBranch |-> Null, scope |-> Null,
         infos |-> <<>>, selected |-> <<>>, name |-> Null, isFavorite |-> FALSE,
         list |-> <<>>, picked |-> <<>>, trace |-> <<>>, toClose |-> <<>>,
         closedCount |-> 0, callNo |-> 0, message |-> "none",
         atStart |-> Missing, cancelled |-> FALSE]

(***************************************************************************)
(* Initial state: a fresh TabStorage (module.exports = new TabStorage()),  *)
(* no tab-hero.json in the workspace yet.                                  *)
(***************************************************************************)
Init ==
    /\ storageFile = Null
    /\ file = Missing
    /\ now = 0
    /\ faults = FALSE
    /\ last = NoCall
    /\ contexts = [c \in Contexts |-> NotCalled]
    /\ host = NoHost
    /\ commands = [c \in Slots |-> Idle]
    /\ calls = <<>>

\* time passes
Tick ==
    /\ now < MaxClock
    /\ now' = now + 1
    /\ UNCHANGED <<storageFile, file, faults, last, contexts, host, commands, calls>>

\* InitializeFile without the existsSync test: the file is written on every call
InitializeFileAlways(f, ok) ==
    IF ok THEN JsonFile(EmptyData) ELSE f

\* the file after initialize's "create storage file if it doesn't exist"
InitializeFile(f, ok) ==
    IF ~ExistsSync(f) /\ ok THEN JsonFile(EmptyData) ELSE f

\* TabStorage.initialize(workspaceFolder)
Initialize(workspaceFolder) ==
    IF ~Truthy(workspaceFolder)
    THEN /\ last' = Threw("initialize", <<>>)
         /\ UNCHANGED <<storageFile, file, now, faults, contexts, host, commands, calls>>
    ELSE \E ok \in WriteOutcomes :
         /\ storageFile' = <<workspaceFolder, ".vscode", "tab-hero.json">>
         /\ file' = InitializeFile(file, ok)
         /\ last' = Call("initialize", <<>>)
         /\ UNCHANGED <<now, faults, contexts, host, commands, calls>>

\* obj with obj[key] = val assigned
SetKey(obj, key, val) ==
    [k \in DOMAIN obj \cup {key} |-> IF k = key THEN val ELSE obj[k]]

\* tabs.map(tab => ({uri: tab.uri.toString(), fileName: ..., languageId: ...}))
MapTabs(tabs) ==
    [i \in 1..Len(tabs) |->
        [uri |-> UriToString(tabs[i].uri),
         fileName |-> tabs[i].fileName,
         languageId |-> tabs[i].languageId]]

\* NewTabSet with the two stamps exchanged
NewTabSetStampsExchanged(name, tabs, branch, isFavorite, scope, t1, t2, t3) ==
    [id |-> NumberToString(t1),
     name |-> name,
     branch |-> IF branch = Undefined THEN Null ELSE branch,
     tabs |-> MapTabs(tabs),
     createdAt |-> ToISOString(t3),
     updatedAt |-> ToISOString(t2),
     isFavorite |-> isFavorite]

\* the object literal saveTabSet builds; t1, t2, t3 are the clock readings of
\* Date.now() and of the two new Date() calls, in the order they are evaluated.
\* The function declares four parameters: a fifth argument (scope) is not read.
NewTabSet(name, tabs, branch, isFavorite, scope, t1, t2, t3) ==
    [id |-> NumberToString(t1),
     name |-> name,
     branch |-> IF branch = Undefined THEN Null ELSE branch,
     tabs |-> MapTabs(tabs),
     createdAt |-> ToISOString(t2),
     updatedAt |-> ToISOString(t3),
     isFavorite |-> isFavorite]

\* data after data.tabSets.push(tabSet) and the conditional data.favorites.push(tabSet.id)
PushTabSet(data, tabSet) ==
    [data EXCEPT
        !.tabSets = Append(@, tabSet),
        !.favorites = IF tabSet.isFavorite /\ ~Includes(@, tabSet.id)
                      THEN Append(@, tabSet.id)
                      ELSE @]

\* TabStorage.saveTabSet(name, tabs, branch = null, isFavorite = false), called with
\* five arguments by extension.saveTabSet
saveTabSet(name, tabs, branch, isFavorite, scope) ==
    LET data == ReadData
        given == [name |-> name, tabs |-> tabs, branch |-> branch,
                  isFavorite |-> isFavorite, scope |-> scope]
    IN /\ Len(TabSetsOrEmpty(data)) < MaxSets
       /\ IF NoTabSets(data) \/ (isFavorite /\ NoFavorites(data))
          THEN /\ last' = [Threw("save", <<>>) EXCEPT !.given = given]
               /\ UNCHANGED <<storageFile, file, now, faults>>
          ELSE \E t2 \in {now, now + 1}, ok \in WriteOutcomes :
               \E t3 \in {t2, t2 + 1} :
                /\ t3 <= MaxClock
                /\ LET tabSet == NewTabSet(name, tabs, branch, isFavorite, scope,
                                           now, t2, t3)
                   IN /\ file' = WriteData(PushTabSet(data, tabSet), ok)
                      /\ last' = [Call("save", <<>>) EXCEPT
                                    !.given = given, !.out = <<tabSet>>,
                                    !.failed = ~WriteReturns(ok)]
                /\ now' = t3
                /\ UNCHANGED <<storageFile, faults>>

\* saveTabSet called on its own, by a test or a caller that is not modelled further
SaveTabSet(name, tabs, branch, isFavorite, scope) ==
    saveTabSet(name, tabs, branch, isFavorite, scope) /\ UNCHANGED <<contexts, host, commands, calls>>

\* RenameIn that also gives a set without a scope the scope "project"
RenameInAddsScope(data, i, newName, t) ==
    LET tabSet == SetKey(SetKey(data.tabSets[i], "name", newName),
                         "updatedAt", ToISOString(t))
    IN [data EXCEPT !.tabSets[i] =
            IF "scope" \in DOMAIN tabSet THEN tabSet ELSE SetKey(tabSet, "scope", "project")]

\* RenameIn without the assignment to name
RenameInKeepsName(data, i, newName, t) ==
    [data EXCEPT !.tabSets[i] = SetKey(@, "updatedAt", ToISOString(t))]

\* data after the assignments of renameTabSet to the set at index i, at clock reading t
RenameIn(data, i, newName, t) ==
    [data EXCEPT !.tabSets[i] =
        SetKey(SetKey(@, "name", newName), "updatedAt", ToISOString(t))]

\* TabStorage.renameTabSet(id, newName)
renameTabSet(id, newName) ==
    LET data == ReadData
    IN IF NoTabSets(data)
       THEN /\ last' = [Threw("rename", id) EXCEPT !.name = newName]
            /\ UNCHANGED <<storageFile, file, now, faults>>
       ELSE LET i == FindIndex(data.tabSets, id)
            IN \E ok \in WriteOutcomes :
               /\ file' = IF i # 0
                          THEN WriteData(RenameIn(data, i, newName, now), ok)
                          ELSE file
               /\ last' = [Call("rename", id) EXCEPT
                             !.name = newName, !.ret = (i # 0),
                             !.failed = (i # 0 /\ ~WriteReturns(ok))]
               /\ UNCHANGED <<storageFile, now, faults>>

\* renameTabSet called on its own, by a test or a caller that is not modelled further
RenameTabSet(id, newName) ==
    renameTabSet(id, newName) /\ UNCHANGED <<contexts, host, commands, calls>>

\* NotFavorite without the negation
NotFavoriteUnflipped(tabSet) ==
    IF "isFavorite" \in DOMAIN tabSet THEN tabSet.isFavorite ELSE FALSE

\* !tabSet.isFavorite
NotFavorite(tabSet) ==
    IF "isFavorite" \in DOMAIN tabSet THEN ~tabSet.isFavorite ELSE TRUE

\* ToggleIn setting isFavorite instead of flipping it
ToggleInSetsFavorite(data, i, id, t) ==
    LET tabSet == SetKey(SetKey(data.tabSets[i], "isFavorite", TRUE),
                         "updatedAt", ToISOString(t))
    IN [data EXCEPT
          !.tabSets[i] = tabSet,
          !.favorites = IF ~Includes(@, id) THEN Append(@, id) ELSE @]

\* data after the assignments of toggleFavorite to the set at index i, at clock reading t
ToggleIn(data, i, id, t) ==
    LET flipped == NotFavorite(data.tabSets[i])
        tabSet == SetKey(SetKey(data.tabSets[i], "isFavorite", flipped),
                         "updatedAt", ToISOString(t))
    IN [data EXCEPT
          !.tabSets[i] = tabSet,
          !.favorites = IF flipped
                        THEN IF ~Includes(@, id) THEN Append(@, id) ELSE @
                        ELSE Filter(@, Elems(@) \ {id})]

\* TabStorage.toggleFavorite(id)
toggleFavorite(id) ==
    LET data == ReadData
        i == IF NoTabSets(data) THEN 0 ELSE FindIndex(data.tabSets, id)
    IN IF NoTabSets(data) \/ (i # 0 /\ NoFavorites(data))
       THEN /\ last' = Threw("toggle", id)
            /\ UNCHANGED <<storageFile, file, now, faults>>
       ELSE \E ok \in WriteOutcomes :
            /\ file' = IF i # 0 THEN WriteData(ToggleIn(data, i, id, now), ok) ELSE file
            /\ last' = [Call("toggle", id) EXCEPT
                           !.ret = IF i # 0 THEN NotFavorite(data.tabSets[i]) ELSE FALSE,
                           !.failed = (i # 0 /\ ~WriteReturns(ok))]
            /\ UNCHANGED <<storageFile, now, faults>>

\* toggleFavorite called on its own, by a test or a caller that is not modelled further
ToggleFavorite(id) ==
    toggleFavorite(id) /\ UNCHANGED <<contexts, host, commands, calls>>

\* DeleteIn without the filter of data.favorites
DeleteInKeepsFavorites(data, id) ==
    [data EXCEPT !.tabSets = Filter(@, {s \in Elems(@) : Get(s, "id") # id})]

\* data after the two filters of deleteTabSet
DeleteIn(data, id) ==
    [data EXCEPT
        !.tabSets = Filter(@, {s \in Elems(@) : Get(s, "id") # id}),
        !.favorites = Filter(@, Elems(@) \ {id})]

\* TabStorage.deleteTabSet(id)
deleteTabSet(id) ==
    LET data == ReadData
    IN IF NoTabSets(data) \/ NoFavorites(data)
       THEN /\ last' = Threw("delete", id)
            /\ UNCHANGED <<storageFile, file, now, faults>>
       ELSE LET after == DeleteIn(data, id)
                removed == Len(after.tabSets) < Len(data.tabSets)
            IN \E ok \in WriteOutcomes :
               /\ file' = IF removed THEN WriteData(after, ok) ELSE file
               /\ last' = [Call("delete", id) EXCEPT
                             !.ret = removed,
                             !.failed = (removed /\ ~WriteReturns(ok))]
               /\ UNCHANGED <<storageFile, now, faults>>

\* deleteTabSet called on its own, by a test or a caller that is not modelled further
DeleteTabSet(id) ==
    deleteTabSet(id) /\ UNCHANGED <<contexts, host, commands, calls>>

(***************************************************************************)
(* Queries.  Each reads the file and changes nothing.  A result is an      *)
(* array; for a query that returns one set it is the one-element array of  *)
(* that set, the empty array standing for undefined or null.               *)
(***************************************************************************)
\* TabStorage.getAllTabSets
getAllTabSets == TabSetsOrEmpty(ReadData)

\* TabStorage.getTabSetsByBranch(branch)
getTabSetsByBranch(branch) ==
    Filter(getAllTabSets, {s \in Elems(getAllTabSets) : Get(s, "branch") = branch})

\* set.isFavorite as a condition
IsFavorite(tabSet) == "isFavorite" \in DOMAIN tabSet /\ tabSet.isFavorite

\* (data.tabSets || []).filter(set => set.isFavorite)
FavoritesOf(data) ==
    Filter(TabSetsOrEmpty(data), {s \in Elems(TabSetsOrEmpty(data)) : IsFavorite(s)})

\* TabStorage.getFavorites
getFavorites == FavoritesOf(ReadData)

\* TabStorage.getTabSetById(id)
getTabSetById(id) ==
    LET i == FindIndex(getAllTabSets, id)
    IN IF i # 0 THEN <<getAllTabSets[i]>> ELSE <<>>

\* CompareUpdated with its operands exchanged: oldest first
CompareUpdatedAscending(a, b) == DateOf(a.updatedAt) - DateOf(b.updatedAt)

\* the comparator of getLatestTabSetForBranch: new Date(b.updatedAt) - new Date(a.updatedAt)
CompareUpdated(a, b) == DateOf(b.updatedAt) - DateOf(a.updatedAt)

RECURSIVE InsertSorted(_, _)
\* x put into the sorted array after every element the comparator does not order after it
InsertSorted(sorted, x) ==
    IF sorted = <<>> THEN <<x>>
    ELSE IF CompareUpdated(Head(sorted), x) > 0
         THEN <<x>> \o sorted
         ELSE <<Head(sorted)>> \o InsertSorted(Tail(sorted), x)

RECURSIVE SortUpdated(_)
\* Array.prototype.sort with CompareUpdated; the sort is stable
SortUpdated(seq) ==
    IF seq = <<>> THEN <<>>
    ELSE InsertSorted(SortUpdated(SubSeq(seq, 1, Len(seq) - 1)), seq[Len(seq)])

\* TabStorage.getLatestTabSetForBranch(branch)
getLatestTabSetForBranch(branch) ==
    LET sets == getTabSetsByBranch(branch)
    IN IF Len(sets) = 0 THEN <<>> ELSE <<SortUpdated(sets)[1]>>

\* Visible without the currentBranch guard of the branch-scope test
VisibleUnguarded(set, currentBranch) ==
    LET scope == Get(set, "scope")
        branch == Get(set, "branch")
    IN IF scope = "project" THEN TRUE
       ELSE IF scope = "branch" THEN branch = currentBranch
       ELSE IF ~Truthy(scope) /\ Truthy(branch) /\ Truthy(currentBranch)
            THEN branch = currentBranch
       ELSE IF ~Truthy(scope) /\ ~Truthy(branch) THEN TRUE
       ELSE FALSE

\* the filter of getTabSetsByScope: its four tests in order, then return false
Visible(set, currentBranch) ==
    LET scope == Get(set, "scope")
        branch == Get(set, "branch")
    IN IF scope = "project" THEN TRUE
       ELSE IF scope = "branch" /\ Truthy(currentBranch) THEN branch = currentBranch
       ELSE IF ~Truthy(scope) /\ Truthy(branch) /\ Truthy(currentBranch)
            THEN branch = currentBranch
       ELSE IF ~Truthy(scope) /\ ~Truthy(branch) THEN TRUE
       ELSE FALSE

\* getTabSetsByScope(currentBranch = null)
getTabSetsByScope(currentBranch) ==
    LET cb == IF currentBranch = Undefined THEN Null ELSE currentBranch
    IN Filter(getAllTabSets, {s \in Elems(getAllTabSets) : Visible(s, cb)})

\* a query is called and its result recorded
Query(op, id, branch, result) ==
    /\ last' = [Call(op, id) EXCEPT !.branch = branch, !.out = result]
    /\ UNCHANGED <<storageFile, file, now, faults, contexts, host, commands, calls>>

GetAllTabSets == Query("getAll", <<>>, Null, getAllTabSets)
GetFavorites == Query("getFavorites", <<>>, Null, getFavorites)
GetTabSetById(id) == Query("getById", id, Null, getTabSetById(id))
GetTabSetsByBranch(branch) == Query("getByBranch", <<>>, branch, getTabSetsByBranch(branch))
GetLatestTabSetForBranch(branch) ==
    Query("getLatest", <<>>, branch, getLatestTabSetForBranch(branch))
GetTabSetsByScope(currentBranch) ==
    Query("getByScope", <<>>, currentBranch, getTabSetsByScope(currentBranch))

(***************************************************************************)
(* The lists the commands of extension.js show in a quick pick.            *)
(***************************************************************************)
\* CompareOpen without the two tests of isFavorite
CompareOpenByDate(a, b) == CompareUpdated(a, b)

\* the comparator of extension.openTabSet: favorites first, then by updated date
CompareOpen(a, b) ==
    IF IsFavorite(a) /\ ~IsFavorite(b) THEN -1
    ELSE IF ~IsFavorite(a) /\ IsFavorite(b) THEN 1
    ELSE CompareUpdated(a, b)

RECURSIVE InsertOpen(_, _)
\* InsertSorted with the comparator of extension.openTabSet
InsertOpen(sorted, x) ==
    IF sorted = <<>> THEN <<x>>
    ELSE IF CompareOpen(Head(sorted), x) > 0
         THEN <<x>> \o sorted
         ELSE <<Head(sorted)>> \o InsertOpen(Tail(sorted), x)

RECURSIVE SortOpen(_)
\* Array.prototype.sort with CompareOpen; the sort is stable
SortOpen(seq) ==
    IF seq = <<>> THEN <<>>
    ELSE InsertOpen(SortOpen(SubSeq(seq, 1, Len(seq) - 1)), seq[Len(seq)])

\* the scope filter of extension.openTabSet: the user's choice when the prompt is
\* shown, null when it is not
ScopeFilter(enableGitBranchScoping, currentBranch, choice) ==
    IF enableGitBranchScoping /\ Truthy(currentBranch) THEN choice ELSE Null

\* the tab sets extension.openTabSet gets for a scope filter, before it sorts them
FilteredTabSets(scopeFilter, currentBranch) ==
    IF scopeFilter = "all" THEN getAllTabSets
    ELSE IF scopeFilter = "branch"
         THEN Filter(getTabSetsByScope(currentBranch),
                     {s \in Elems(getTabSetsByScope(currentBranch)) :
                        Get(s, "scope") = "branch"})
    ELSE IF scopeFilter = "project"
         THEN Filter(getAllTabSets,
                     {s \in Elems(getAllTabSets) :
                        Get(s, "scope") = "project" \/ ~Truthy(Get(s, "scope"))})
    ELSE getTabSetsByScope(currentBranch)

\* extension.openTabSet from the scope choice to the quick pick of the sorted list
OpenTabSetList(enableGitBranchScoping, currentBranch, choice) ==
    LET scopeFilter == ScopeFilter(enableGitBranchScoping, currentBranch, choice)
    IN /\ last' = [Call("openList", <<>>) EXCEPT
                     !.branch = currentBranch,
                     !.given = [command |-> "open", scopeFilter |-> scopeFilter],
                     !.out = SortOpen(FilteredTabSets(scopeFilter, currentBranch))]
       /\ UNCHANGED <<storageFile, file, now, faults, contexts, host, commands, calls>>

\* extension.renameTabSet, deleteTabSet and toggleFavorite up to the quick pick of
\* the list sorted by updated date
PickList(command) ==
    /\ last' = [Call("pickList", <<>>) EXCEPT
                  !.given = [command |-> command, scopeFilter |-> Null],
                  !.out = SortUpdated(getAllTabSets)]
    /\ UNCHANGED <<storageFile, file, now, faults, contexts, host, commands, calls>>

Next ==
    \/ Tick
    \/ \E w \in {Null, "ws"} : Initialize(w)
    \/ \E n \in Names, tabs \in TabLists, b \in SaveBranches, f \in BOOLEAN, sc \in Scopes :
            SaveTabSet(n, tabs, b, f, sc)
    \/ \E id \in IdArgs, n \in Names : RenameTabSet(id, n)
    \/ \E id \in IdArgs : ToggleFavorite(id)
    \/ \E id \in IdArgs : DeleteTabSet(id)

Spec == Init /\ [][Next]_vars

(***************************************************************************)
(* The same store on a file system that may refuse any write: the disk is  *)
(* full, the folder is read-only, the file is locked.                      *)
(***************************************************************************)
InitFault ==
    /\ storageFile = Null
    /\ file = Missing
    /\ now = 0
    /\ faults = TRUE
    /\ last = NoCall
    /\ contexts = [c \in Contexts |-> NotCalled]
    /\ host = NoHost
    /\ commands = [c \in Slots |-> Idle]
    /\ calls = <<>>

SpecFault == InitFault /\ [][Next]_vars

(***************************************************************************)
(* A workspace whose tab-hero.json was written in an earlier session, by   *)
(* this or another version of the extension: sets with and without a scope *)
(* key, with and without a branch.  The store is constructed, initialized  *)
(* and queried.                                                            *)
(***************************************************************************)
\* an object with the key only when the value is not undefined
Optional(key, val) == IF val = Undefined THEN <<>> ELSE (key :> val)

\* the i-th set of a stored document
StoredSet(i, scope, branch, updated) ==
    [id |-> NumberToString(i - 1), name |-> "n1", tabs |-> <<>>,
     createdAt |-> ToISOString(0), updatedAt |-> ToISOString(updated),
     isFavorite |-> (i = 2)]
        @@ Optional("scope", scope) @@ Optional("branch", branch)

StoredSets(i) ==
    {StoredSet(i, sc, b, u) : sc \in Scopes \cup {Undefined},
                              b \in Branches \cup {Null, Undefined},
                              u \in {0, MaxClock}}

RECURSIVE StoredLists(_)
\* the lists of n stored sets
StoredLists(n) ==
    IF n = 0 THEN {<<>>}
    ELSE {Append(sets, s) : sets \in StoredLists(n - 1), s \in StoredSets(n)}

\* the documents of up to MaxSets sets, with the favorites index of their favorites
StoredDocs ==
    {[tabSets |-> sets,
      favorites |-> [k \in 1..Len(FavoritesOf([tabSets |-> sets])) |->
                        FavoritesOf([tabSets |-> sets])[k].id]] :
        sets \in UNION {StoredLists(n) : n \in 0..MaxSets}}

\* what can be at the path: nothing, text that is not JSON, a JSON object without
\* the two arrays, a stored document
StoredFiles ==
    {Missing, Corrupt, JsonFile([version |-> 1])} \cup {JsonFile(d) : d \in StoredDocs}

InitDisk ==
    /\ storageFile = Null
    /\ file \in StoredFiles
    /\ now = MaxClock
    /\ faults = FALSE
    /\ last = NoCall
    /\ contexts = [c \in Contexts |-> NotCalled]
    /\ host = NoHost
    /\ commands = [c \in Slots |-> Idle]
    /\ calls = <<>>

NextDisk ==
    \/ \E w \in {Null, "ws"} : Initialize(w)
    \/ GetAllTabSets
    \/ GetFavorites
    \/ \E id \in IdArgs : GetTabSetById(id)
    \/ \E b \in Branches \cup {Null} : GetTabSetsByBranch(b)
    \/ \E b \in Branches \cup {Null} : GetLatestTabSetForBranch(b)
    \/ \E cb \in Branches \cup {Null, Undefined} : GetTabSetsByScope(cb)
    \/ \E e \in BOOLEAN, cb \in {"b1", Null}, ch \in {"branch", "project", "all"} :
            OpenTabSetList(e, cb, ch)
    \/ \E command \in {"rename", "delete", "toggle"} : PickList(command)

SpecDisk == InitDisk /\ [][NextDisk]_vars

(***************************************************************************)
(* A later session that changes what an earlier one left: the file holds   *)
(* nothing, text that is not JSON, a JSON object lacking one or both       *)
(* arrays, or a document of one set, with or without a scope key, which    *)
(* the process may or may not be allowed to read.                          *)
(***************************************************************************)
\* parsable JSON objects that are not a whole document
PartialDocs == {[version |-> 1], [tabSets |-> <<>>], [favorites |-> <<>>]}

SessionFiles ==
    {Missing, Corrupt}
        \cup {JsonFile(d) : d \in PartialDocs}
        \cup {JsonFile(d) : d \in {x \in StoredDocs : Len(x.tabSets) = 1}}
        \cup {Unreadable(d) : d \in {x \in StoredDocs : Len(x.tabSets) = 1}}

InitSession ==
    /\ storageFile = Null
    /\ file \in SessionFiles
    /\ now = MaxClock
    /\ faults = FALSE
    /\ last = NoCall
    /\ contexts = [c \in Contexts |-> NotCalled]
    /\ host = NoHost
    /\ commands = [c \in Slots |-> Idle]
    /\ calls = <<>>

NextSession ==
    \/ \E w \in {Null, "ws"} : Initialize(w)
    \/ \E n \in Names, tabs \in TabLists, b \in SaveBranches, f \in BOOLEAN, sc \in Scopes :
            SaveTabSet(n, tabs, b, f, sc)
    \/ \E id \in IdArgs, n \in Names : RenameTabSet(id, n)
    \/ \E id \in IdArgs : ToggleFavorite(id)
    \/ \E id \in IdArgs : DeleteTabSet(id)

SpecSession == InitSession /\ [][NextSession]_vars

(***************************************************************************)
(* Two windows on one workspace, both initialized.  A mutating call is the *)
(* step that reads the file (const data = this.readData()) and the step    *)
(* that changes data and writes it; steps of the other window can come     *)
(* between the two.                                                        *)
(***************************************************************************)
\* the context enters a mutating call: readData returns the parsed file
ReadFor(c, op, id, name, isFavorite) ==
    /\ contexts[c].pc # "read"
    /\ contexts[c].calls < MaxCalls
    /\ contexts' = [contexts EXCEPT ![c] =
            [NotCalled EXCEPT !.pc = "read", !.calls = contexts[c].calls + 1,
                              !.op = op, !.id = id, !.name = name,
                              !.isFavorite = isFavorite, !.data = ReadData,
                              !.latest = contexts[c].latest]]
    /\ UNCHANGED <<storageFile, file, now, faults, last, host, commands, calls>>

ReadForSave(c, name, isFavorite) ==
    /\ Len(ReadData.tabSets) < MaxSets
    /\ ReadFor(c, "save", <<>>, name, isFavorite)

ReadForRename(c, id, newName) == ReadFor(c, "rename", id, newName, FALSE)
ReadForToggle(c, id) == ReadFor(c, "toggle", id, Null, FALSE)
ReadForDelete(c, id) == ReadFor(c, "delete", id, Null, FALSE)

\* Held reading the file again at the time of the write
HeldReread(c) == ReadData

\* the document the second step of the call works on: the object readData returned
Held(c) == contexts[c].data

\* the document the call makes of data, between readData and writeData
Apply(call, data) ==
    LET i == FindIndex(data.tabSets, call.id)
    IN CASE call.op = "save" -> PushTabSet(data, call.tabSet[1])
         [] call.op = "rename" ->
                IF i # 0 THEN RenameIn(data, i, call.name, call.t) ELSE data
         [] call.op = "toggle" ->
                IF i # 0 THEN ToggleIn(data, i, call.id, call.t) ELSE data
         [] call.op = "delete" -> DeleteIn(data, call.id)

\* whether the call reaches this.writeData(data)
Writes(call, data) ==
    CASE call.op = "save" -> TRUE
      [] call.op \in {"rename", "toggle"} -> FindIndex(data.tabSets, call.id) # 0
      [] call.op = "delete" -> Len(DeleteIn(data, call.id).tabSets) < Len(data.tabSets)

\* the rest of the call: the clock is read, data is changed and written, the call returns
WriteBack(c) ==
    /\ contexts[c].pc = "read"
    /\ \E t2 \in {now, now + 1} : \E t3 \in {t2, t2 + 1} :
        /\ t3 <= MaxClock
        /\ contexts[c].op # "save" => t3 = now
        /\ LET call == [contexts[c] EXCEPT
                            !.t = now,
                            !.tabSet = IF contexts[c].op = "save"
                                       THEN <<NewTabSet(contexts[c].name, <<>>, Undefined,
                                                        contexts[c].isFavorite, "project",
                                                        now, t2, t3)>>
                                       ELSE <<>>]
               writes == Writes(call, Held(c))
               after == Apply(call, Held(c))
           IN /\ file' = IF writes THEN WriteData(after, TRUE) ELSE file
              /\ contexts' = [o \in Contexts |->
                    IF o = c
                    THEN [call EXCEPT !.pc = "done", !.wrote = after, !.over = file,
                                      !.latest = (writes \/ @)]
                    ELSE [contexts[o] EXCEPT !.latest = (@ /\ ~writes)]]
        /\ now' = t3
    /\ UNCHANGED <<storageFile, faults, last, host, commands, calls>>

InitShared ==
    /\ storageFile = <<"ws", ".vscode", "tab-hero.json">>
    /\ file = JsonFile(EmptyData)
    /\ now = 0
    /\ faults = FALSE
    /\ last = NoCall
    /\ contexts = [c \in Contexts |-> NotCalled]
    /\ host = NoHost
    /\ commands = [c \in Slots |-> Idle]
    /\ calls = <<>>

NextShared ==
    \/ Tick
    \/ \E c \in Contexts, n \in Names, f \in BOOLEAN : ReadForSave(c, n, f)
    \/ \E c \in Contexts, id \in IdArgs, n \in Names : ReadForRename(c, id, n)
    \/ \E c \in Contexts, id \in IdArgs : ReadForToggle(c, id)
    \/ \E c \in Contexts, id \in IdArgs : ReadForDelete(c, id)
    \/ \E c \in Contexts : WriteBack(c)

SpecShared == InitShared /\ [][NextShared]_vars

(***************************************************************************)
(* The commands of extension.js.  A command is an async function: it runs  *)
(* from one await to the next in one step, and between two steps of a      *)
(* command the steps of another command can run.  A call of the store is   *)
(* synchronous and lies inside one step.                                   *)
(***************************************************************************)
\* the commands started in one run of the editor
MaxCommands == 3

\* Not that finds no value falsy
NotNever(value) == FALSE

\* !value
Not(value) == ~Truthy(value)

\* the command in slot c goes on as r
Goes(c, r) == commands' = [commands EXCEPT ![c] = r]

\* the command returns, after the message it showed if it showed one
Ends(r, message) == [r EXCEPT !.pc = "done", !.message = message]

\* a command can be started in the slot
Free(c) == commands[c].pc \in {"idle", "done"} /\ host.started < MaxCommands

\* the store call a command made, as calls records it
StoreCall(op, id, name, tabSet, t) ==
    [op |-> op, id |-> id, name |-> name, tabSet |-> tabSet, t |-> t]

\* ShowsScopePrompt without the test of currentBranch
ShowsScopePromptOnAnyBranch(config, currentBranch) == config.enableGitBranchScoping

\* the condition under which extension.saveTabSet asks for the scope
ShowsScopePrompt(config, currentBranch) ==
    config.enableGitBranchScoping /\ Truthy(currentBranch)

\* NextStage that asks for a name whatever enableNaming says
NextStageAlwaysNames(config, after) ==
    IF after = "info" /\ config.enableFileSelection THEN "files"
    ELSE IF after \in {"info", "files"} THEN "name"
    ELSE IF after \in {"info", "files", "name"} /\ config.enableFavorites THEN "favorite"
    ELSE "save"

\* the next await of extension.saveTabSet after the tab information ("info") or after
\* the answer to a prompt: the next prompt whose setting is on, or the store save
NextStage(config, after) ==
    IF after = "info" /\ config.enableFileSelection THEN "files"
    ELSE IF after \in {"info", "files"} /\ config.enableNaming THEN "name"
    ELSE IF after \in {"info", "files", "name"} /\ config.enableFavorites THEN "favorite"
    ELSE "save"

\* `${currentBranch} tabs`
BranchTabs(currentBranch) == IF currentBranch = "b1" THEN "b1 tabs" ELSE "b2 tabs"

\* the name extension.saveTabSet generates when naming is off (the date left out)
AutoName(currentBranch, scope) ==
    IF Truthy(currentBranch) /\ scope = "branch" THEN BranchTabs(currentBranch)
    ELSE "Tab set"

\* the open tabs closeTabsByUris finds for the uris of the saved tabs
TabsToClose(tabs) ==
    Filter(host.tabs, {t \in Elems(host.tabs) : \E s \in Elems(tabs) : s.uri = t.uri})

\* storage.saveTabSet(name, tabs, currentBranch, isFavorite, scope), and
\* closeTabsByUris up to its first await
SaveStore(c, r) ==
    LET name == IF host.config.enableNaming THEN r.name
                ELSE AutoName(r.currentBranch, r.scope)
        called == [r EXCEPT !.name = name, !.trace = Append(@, "save"),
                            !.callNo = Len(calls) + 1]
    IN /\ saveTabSet(name, r.selected, r.currentBranch, r.isFavorite, r.scope)
       /\ calls' = IF last'.threw THEN calls
                   ELSE Append(calls, StoreCall("save", <<>>, name, last'.out, now))
       /\ Goes(c, IF last'.threw
                  THEN Ends([called EXCEPT !.callNo = 0], "Failed to save tab set")
                  ELSE [called EXCEPT !.pc = "closeTabsByUris",
                                      !.toClose = TabsToClose(r.selected)])
       /\ UNCHANGED <<contexts, host>>

\* extension.saveTabSet goes on after the tab information or the answer to a prompt
Continue(c, r, after) ==
    LET next == NextStage(host.config, after)
    IN IF next = "save"
       THEN SaveStore(c, r)
       ELSE /\ Goes(c, [r EXCEPT !.pc = next, !.trace = Append(@, next)])
            /\ UNCHANGED <<storageFile, file, now, faults, last, contexts, host, calls>>

\* extension.saveTabSet from its start to await gitHelper.getCurrentBranch
StartSaveTabSet(c) ==
    /\ Free(c)
    /\ host' = [host EXCEPT !.started = @ + 1]
    /\ LET r == [Idle EXCEPT !.cmd = "save", !.atStart = file]
       IN Goes(c, IF Not(host.workspace) THEN Ends(r, "No workspace folder open")
                  ELSE IF Len(host.tabs) = 0 THEN Ends(r, "No tabs are currently open")
                  ELSE [r EXCEPT !.pc = "getCurrentBranch", !.infos = host.tabs])
    /\ UNCHANGED <<storageFile, file, now, faults, last, contexts, calls>>

\* the branch is there: the scope prompt is shown, or the tab information is asked for
SaveGotBranch(c) ==
    /\ commands[c].pc = "getCurrentBranch"
    /\ LET r == [commands[c] EXCEPT !.currentBranch = host.branch, !.scope = "project"]
       IN Goes(c, IF ShowsScopePrompt(host.config, host.branch)
                  THEN [r EXCEPT !.pc = "scope", !.trace = Append(@, "scope")]
                  ELSE [r EXCEPT !.pc = "openTextDocument"])
    /\ UNCHANGED <<storageFile, file, now, faults, last, contexts, host, calls>>

\* the answer to the scope prompt; scopeChoice is undefined when the user cancelled
SaveScopeChosen(c, scopeChoice) ==
    /\ commands[c].pc = "scope"
    /\ LET r == [commands[c] EXCEPT !.cancelled = (scopeChoice = Undefined)]
       IN Goes(c, IF Not(scopeChoice) THEN Ends(r, "none")
                  ELSE [r EXCEPT !.pc = "openTextDocument", !.scope = scopeChoice])
    /\ UNCHANGED <<storageFile, file, now, faults, last, contexts, host, calls>>

\* Promise.all of the tab information resolved
SaveTabInfo(c) ==
    /\ commands[c].pc = "openTextDocument"
    /\ Continue(c, [commands[c] EXCEPT !.selected = commands[c].infos], "info")

\* the answer to the file selection; picked is undefined when the user cancelled
SaveFilesPicked(c, cancelled, picked) ==
    /\ commands[c].pc = "files"
    /\ LET r == [commands[c] EXCEPT !.cancelled = (cancelled \/ picked = <<>>)]
       IN IF cancelled \/ Len(picked) = 0
          THEN /\ Goes(c, Ends(r, "none"))
               /\ UNCHANGED <<storageFile, file, now, faults, last, contexts, host, calls>>
          ELSE Continue(c, [r EXCEPT !.selected = picked], "files")

\* the answer to the input box; name is undefined when the user cancelled
SaveNamed(c, name) ==
    /\ commands[c].pc = "name"
    /\ LET r == [commands[c] EXCEPT !.cancelled = (name = Undefined)]
       IN IF Not(name)
          THEN /\ Goes(c, Ends(r, "none"))
               /\ UNCHANGED <<storageFile, file, now, faults, last, contexts, host, calls>>
          ELSE Continue(c, [r EXCEPT !.name = name], "name")

\* the answer to the favorite prompt; favoriteChoice is undefined when the user cancelled
SaveFavoriteChosen(c, favoriteChoice) ==
    /\ commands[c].pc = "favorite"
    /\ LET r == [commands[c] EXCEPT !.cancelled = (favoriteChoice = Undefined)]
       IN IF favoriteChoice = Undefined
          THEN /\ Goes(c, Ends(r, "none"))
               /\ UNCHANGED <<storageFile, file, now, faults, last, contexts, host, calls>>
          ELSE Continue(c, [r EXCEPT !.isFavorite = (favoriteChoice = "Yes")], "favorite")

\* closeTabsByUris: one await of tabGroups.close; a tab that is gone is not counted.
\* After the last one the command shows the message of success.
CloseTabs(c) ==
    /\ commands[c].pc = "closeTabsByUris"
    /\ LET r == commands[c]
       IN IF Len(r.toClose) = 0
          THEN /\ Goes(c, Ends(r, "Saved"))
               /\ UNCHANGED host
          ELSE LET tab == Head(r.toClose)
                   open == tab \in Elems(host.tabs)
               IN /\ host' = [host EXCEPT !.tabs = Filter(@, Elems(@) \ {tab})]
                  /\ Goes(c, [r EXCEPT !.toClose = Tail(@),
                                       !.closedCount = IF open THEN @ + 1 ELSE @,
                                       !.trace = IF open THEN Append(@, "close") ELSE @])
    /\ UNCHANGED <<storageFile, file, now, faults, last, contexts, calls>>

\* extension.renameTabSet, deleteTabSet and toggleFavorite from the start to the quick
\* pick of the sorted list
StartPick(c, cmd) ==
    /\ Free(c)
    /\ host' = [host EXCEPT !.started = @ + 1]
    /\ LET r == [Idle EXCEPT !.cmd = cmd, !.atStart = file]
       IN Goes(c, IF Len(getAllTabSets) = 0 THEN Ends(r, "No saved tab sets found")
                  ELSE [r EXCEPT !.pc = "showQuickPick",
                                 !.list = SortUpdated(getAllTabSets)])
    /\ UNCHANGED <<storageFile, file, now, faults, last, contexts, calls>>

\* the message of extension.toggleFavorite for what storage.toggleFavorite returned
ToggleMessage(isFavorite) ==
    IF isFavorite THEN "Added to favorites" ELSE "Removed from favorites"

\* the answer to the quick pick: item i of the list, or 0 when the user cancelled.
\* extension.toggleFavorite calls the store at once, the other two ask once more.
Picked(c, i) ==
    /\ commands[c].pc = "showQuickPick"
    /\ LET r == commands[c]
       IN IF i = 0
          THEN /\ Goes(c, Ends(r, "none"))
               /\ UNCHANGED <<storageFile, file, now, faults, last, contexts, host, calls>>
          ELSE IF r.cmd = "toggle"
          THEN /\ toggleFavorite(r.list[i].id)
               /\ calls' = IF last'.threw THEN calls
                           ELSE Append(calls, StoreCall("toggle", r.list[i].id, Null,
                                                        <<>>, now))
               /\ Goes(c, Ends([r EXCEPT !.picked = <<r.list[i]>>,
                                         !.callNo = IF last'.threw THEN 0
                                                    ELSE Len(calls) + 1],
                               IF last'.threw THEN "Failed to toggle favorite"
                               ELSE ToggleMessage(last'.ret)))
               /\ UNCHANGED <<contexts, host>>
          ELSE /\ Goes(c, [r EXCEPT !.picked = <<r.list[i]>>,
                                    !.pc = IF r.cmd = "rename" THEN "showInputBox"
                                           ELSE "showWarningMessage"])
               /\ UNCHANGED <<storageFile, file, now, faults, last, contexts, host, calls>>

\* the answer to the input box of extension.renameTabSet, and the store call
RenameNamed(c, newName) ==
    /\ commands[c].pc = "showInputBox"
    /\ LET r == commands[c]
       IN IF Not(newName)
          THEN /\ Goes(c, Ends(r, "none"))
               /\ UNCHANGED <<storageFile, file, now, faults, last, contexts, host, calls>>
          ELSE /\ renameTabSet(r.picked[1].id, newName)
               /\ calls' = IF last'.threw THEN calls
                           ELSE Append(calls, StoreCall("rename", r.picked[1].id, newName,
                                                        <<>>, now))
               /\ Goes(c, Ends([r EXCEPT !.name = newName,
                                         !.callNo = IF last'.threw THEN 0
                                                    ELSE Len(calls) + 1],
                               IF last'.threw \/ ~last'.ret THEN "Failed to rename tab set"
                               ELSE "Renamed"))
               /\ UNCHANGED <<contexts, host>>

\* the answer to the confirmation of extension.deleteTabSet, and the store call
DeleteConfirmed(c, confirm) ==
    /\ commands[c].pc = "showWarningMessage"
    /\ LET r == commands[c]
       IN IF confirm # "Delete"
          THEN /\ Goes(c, Ends(r, "none"))
               /\ UNCHANGED <<storageFile, file, now, faults, last, contexts, host, calls>>
          ELSE /\ deleteTabSet(r.picked[1].id)
               /\ calls' = IF last'.threw THEN calls
                           ELSE Append(calls, StoreCall("delete", r.picked[1].id, Null,
                                                        <<>>, now))
               /\ Goes(c, Ends([r EXCEPT !.callNo = IF last'.threw THEN 0
                                                    ELSE Len(calls) + 1],
                               IF last'.threw \/ ~last'.ret THEN "Failed to delete tab set"
                               ELSE "Deleted"))
               /\ UNCHANGED <<contexts, host>>

\* every setting of tabHero, on or off
Configs == [enableGitBranchScoping : BOOLEAN, enableFileSelection : BOOLEAN,
            enableNaming : BOOLEAN, enableFavorites : BOOLEAN]

\* the state activate leaves for an editor: the store is initialized when a workspace
\* folder is open, tab-hero.json is new, no command was run
Activated(h) ==
    /\ host = h
    /\ storageFile = IF Truthy(h.workspace)
                     THEN <<h.workspace, ".vscode", "tab-hero.json">> ELSE Null
    /\ file = IF Truthy(h.workspace) THEN JsonFile(EmptyData) ELSE Missing
    /\ now = 0
    /\ last = NoCall
    /\ contexts = [c \in Contexts |-> NotCalled]
    /\ commands = [c \in Slots |-> Idle]
    /\ calls = <<>>

(***************************************************************************)
(* The save command alone, under every setting of tabHero, with or without *)
(* a workspace folder and a git branch, two tabs open.                     *)
(***************************************************************************)
InitSaveCommand ==
    /\ faults = FALSE
    /\ \E h \in [workspace : {Null, "ws"}, config : Configs, branch : {Null, "b1"},
                 tabs : {<<Tab1, Tab2>>}, started : {0}] : Activated(h)

NextSaveCommand ==
    \/ StartSaveTabSet("s1")
    \/ SaveGotBranch("s1")
    \/ \E scopeChoice \in {Undefined, "branch", "project"} :
            SaveScopeChosen("s1", scopeChoice)
    \/ SaveTabInfo("s1")
    \/ \E cancelled \in BOOLEAN : \E S \in SUBSET Elems(commands["s1"].infos) :
            SaveFilesPicked("s1", cancelled, Filter(commands["s1"].infos, S))
    \/ \E name \in {Undefined, "n1"} : SaveNamed("s1", name)
    \/ \E favoriteChoice \in {Undefined, "Yes", "No"} :
            SaveFavoriteChosen("s1", favoriteChoice)
    \/ CloseTabs("s1")

SpecSaveCommand == InitSaveCommand /\ [][NextSaveCommand]_vars

\* the same with writes of tab-hero.json that can fail
InitSaveFault ==
    /\ faults = TRUE
    /\ \E h \in [workspace : {"ws"}, config : Configs, branch : {Null, "b1"},
                 tabs : {<<Tab1, Tab2>>}, started : {0}] : Activated(h)

SpecSaveFault == InitSaveFault /\ [][NextSaveCommand]_vars

(***************************************************************************)
(* Commands in one extension host, two at a time: the save command with    *)
(* every prompt switched off, and the rename, delete and toggle-favorite   *)
(* commands.                                                               *)
(***************************************************************************)
NoPrompts == [enableGitBranchScoping |-> FALSE, enableFileSelection |-> FALSE,
              enableNaming |-> FALSE, enableFavorites |-> FALSE]

InitCommands ==
    /\ faults = FALSE
    /\ \E h \in [workspace : {"ws"}, config : {NoPrompts}, branch : {Null, "b1"},
                 tabs : {<<Tab1>>}, started : {0}] : Activated(h)

NextCommands ==
    \/ \E c \in Slots : StartSaveTabSet(c)
    \/ \E c \in Slots : SaveGotBranch(c)
    \/ \E c \in Slots : SaveTabInfo(c)
    \/ \E c \in Slots : CloseTabs(c)
    \/ \E c \in Slots, cmd \in {"rename", "delete", "toggle"} : StartPick(c, cmd)
    \/ \E c \in Slots : \E i \in 0..Len(commands[c].list) : Picked(c, i)
    \/ \E c \in Slots, newName \in {Undefined, "n2"} : RenameNamed(c, newName)
    \/ \E c \in Slots, confirm \in {"Delete", "Cancel"} : DeleteConfirmed(c, confirm)

SpecCommands == InitCommands /\ [][NextCommands]_vars

(***************************************************************************)
(* Properties.  BeforeData is the document the last call read: no call but *)
(* initialize changes storageFile.                                         *)
(***************************************************************************)
BeforeData == ReadFrom(storageFile, last.before)

\* the document the call before the last one read, when last.again
Before2Data == ReadFrom(storageFile, last.before2)

\* the last call was op, it returned, and its id named a set of the document it read
CalledOnExisting(op) ==
    /\ last.op = op
    /\ ~last.threw
    /\ FindIndex(BeforeData.tabSets, last.id) # 0

\* the last call was op and its id named no set of the document it read
CalledOnUnknown(op) ==
    /\ last.op = op
    /\ FindIndex(TabSetsOrEmpty(BeforeData), last.id) = 0

\* the stored tab references are the given tabs, one for one and in the given order
SameTabs(stored, given) ==
    /\ Len(stored) = Len(given)
    /\ \A i \in 1..Len(given) :
        /\ stored[i].uri = UriToString(given[i].uri)
        /\ stored[i].fileName = given[i].fileName
        /\ stored[i].languageId = given[i].languageId

\* the tab set carries the fields given to saveTabSet
CarriesGiven(tabSet, given) ==
    /\ Get(tabSet, "name") = given.name
    /\ Get(tabSet, "branch") = (IF given.branch = Undefined THEN Null ELSE given.branch)
    /\ Get(tabSet, "scope") = given.scope
    /\ "isFavorite" \in DOMAIN tabSet /\ tabSet.isFavorite = given.isFavorite
    /\ "tabs" \in DOMAIN tabSet /\ SameTabs(tabSet.tabs, given.tabs)

\* C2: save(name, tabs, branch, isFavorite, scope) on an initialized store appends
\* exactly one TabSet to the document and returns it; that set carries the given name,
\* branch (null when none is given), isFavorite, scope and tabs (in order, repetitions
\* kept), and getById of its id returns a set with those fields.
C2_SaveStoresGivenFields ==
    (last.op = "save" /\ ~last.threw /\ storageFile # Null) =>
        LET tabSet == last.out[1]
        IN /\ ReadData.tabSets = Append(BeforeData.tabSets, tabSet)
           /\ ReadData.favorites \in {BeforeData.favorites,
                                      Append(BeforeData.favorites, tabSet.id)}
           /\ CarriesGiven(tabSet, last.given)
           /\ getTabSetById(tabSet.id) # <<>>
           /\ CarriesGiven(getTabSetById(tabSet.id)[1], last.given)

\* C3: no two TabSets of the document have the same id, and the id save assigns is
\* not the id of a set already in the document.
C3_UniqueIds ==
    /\ \A i, j \in 1..Len(getAllTabSets) :
            i # j => getAllTabSets[i].id # getAllTabSets[j].id
    /\ (last.op = "save" /\ ~last.threw) =>
            \A i \in 1..Len(BeforeData.tabSets) :
                BeforeData.tabSets[i].id # last.out[1].id

\* C4: the favorites index lists exactly the ids of the TabSets whose isFavorite is
\* true, each once.
C4_FavoritesIndexInSync ==
    LET data == ReadData
    IN /\ Elems(data.favorites) =
            {s.id : s \in {x \in Elems(data.tabSets) : IsFavorite(x)}}
       /\ \A i, j \in 1..Len(data.favorites) :
            i # j => data.favorites[i] # data.favorites[j]

\* the last two calls were toggleFavorite(id) on the same id, which named a set
ToggledTwice ==
    /\ CalledOnExisting("toggle")
    /\ last.again
    /\ FindIndex(Before2Data.tabSets, last.id) # 0

\* the set the two toggles acted on: before them, between them, after them
Toggled0 == Before2Data.tabSets[FindIndex(Before2Data.tabSets, last.id)]
Toggled1 == BeforeData.tabSets[FindIndex(BeforeData.tabSets, last.id)]
Toggled2 == ReadData.tabSets[FindIndex(ReadData.tabSets, last.id)]

\* C5 as stated: toggleFavorite(id) twice in succession on an existing id returns true
\* then false, getFavorites() holds the set after the first call and not after the
\* second, and isFavorite ends as it began.
C5_TrueThenFalse ==
    ToggledTwice =>
        /\ last.prevRet = TRUE
        /\ last.ret = FALSE
        /\ Includes(FavoritesOf(BeforeData), Toggled1)
        /\ ~Includes(getFavorites, Toggled2)
        /\ IsFavorite(Toggled2) = IsFavorite(Toggled0)

\* C5 amended: toggleFavorite(id) twice in succession on an existing id returns first
\* the negation of the set's isFavorite and then that value again (true then false for
\* a set that was not a favorite), getFavorites() holds the set after exactly the call
\* that returned true, and isFavorite ends as it began.
C5_ToggleTwiceRestores ==
    ToggledTwice =>
        /\ last.prevRet = ~IsFavorite(Toggled0)
        /\ last.ret = IsFavorite(Toggled0)
        /\ Includes(FavoritesOf(BeforeData), Toggled1) = last.prevRet
        /\ Includes(getFavorites, Toggled2) = last.ret
        /\ IsFavorite(Toggled2) = IsFavorite(Toggled0)
        /\ ~IsFavorite(Toggled0) => (last.prevRet = TRUE /\ last.ret = FALSE)

\* two toggles in succession of a set that was not a favorite: true, then false
W5_ToggledTwice ==
    /\ ToggledTwice
    /\ ~IsFavorite(Toggled0)
    /\ last.prevRet = TRUE /\ last.ret = FALSE

\* C6: for an id present in the document, rename(id, n) returns true and a following
\* getById(id) yields a TabSet whose name is n.
C6_RenameSetsName ==
    CalledOnExisting("rename") =>
        /\ last.ret = TRUE
        /\ getTabSetById(last.id) # <<>>
        /\ getTabSetById(last.id)[1].name = last.name

\* a rename that changed the name of a set
W6_Renamed ==
    /\ CalledOnExisting("rename")
    /\ BeforeData.tabSets[FindIndex(BeforeData.tabSets, last.id)].name # last.name
    /\ getTabSetById(last.id)[1].name = last.name

\* C7: delete(id) on an existing id returns true and leaves the id in neither getAll()
\* nor the favorites index; delete(id) again returns false and changes nothing.
C7_DeleteRemoves ==
    /\ CalledOnExisting("delete") =>
        /\ last.ret = TRUE
        /\ \A i \in 1..Len(getAllTabSets) : getAllTabSets[i].id # last.id
        /\ ~Includes(ReadData.favorites, last.id)
    /\ (last.op = "delete" /\ last.again /\ last.prevRet) =>
        /\ last.ret = FALSE
        /\ ~last.threw
        /\ file = last.before

\* a favorite set was deleted, and delete was called on its id again
W7_DeletedTwice ==
    /\ last.op = "delete" /\ last.again /\ last.prevRet
    /\ Includes(Before2Data.favorites, last.id)
    /\ Len(Before2Data.tabSets) = 2
    /\ Len(getAllTabSets) = 1

\* C8: rename, toggleFavorite and delete with an id that is not in the document return
\* false, and getById returns an absent result, without raising and without changing
\* the persisted document.
C8_UnknownIdIsNoOp ==
    /\ \A op \in {"rename", "toggle", "delete"} :
        CalledOnUnknown(op) =>
            /\ last.ret = FALSE
            /\ ~last.threw
            /\ file = last.before
    /\ \A id \in IdArgs :
        (\A i \in 1..Len(getAllTabSets) : getAllTabSets[i].id # id) =>
            getTabSetById(id) = <<>>

\* a call with an unknown id on a document that holds a set
W8_UnknownId ==
    /\ \E op \in {"rename", "toggle", "delete"} : CalledOnUnknown(op)
    /\ Len(getAllTabSets) > 0
    /\ getTabSetById(last.id) = <<>>


\* a value that is there: neither null nor undefined (nor the empty string)
Present(v) == v \notin {Null, Undefined, ""}

\* the scope rule as the specification states it
VisibleByRule(set, currentBranch) ==
    LET scope == Get(set, "scope")
        branch == Get(set, "branch")
    IN \/ scope = "project"
       \/ scope = "branch" /\ Present(currentBranch) /\ branch = currentBranch
       \/ ~Present(scope) /\ Present(branch) /\ Present(currentBranch)
            /\ branch = currentBranch
       \/ ~Present(scope) /\ ~Present(branch)

OnBranch(b) == {s \in Elems(getAllTabSets) : Get(s, "branch") = b}

\* C9: getLatestForBranch(b) returns a TabSet whose branch is b and whose updatedAt is
\* at least that of every TabSet with branch b, and an absent result exactly when no
\* TabSet has branch b.
C9_LatestForBranch ==
    last.op = "getLatest" =>
        /\ (last.out = <<>>) <=> (OnBranch(last.branch) = {})
        /\ last.out # <<>> =>
            /\ last.out[1] \in OnBranch(last.branch)
            /\ \A s \in OnBranch(last.branch) :
                DateOf(last.out[1].updatedAt) >= DateOf(s.updatedAt)

\* the latest of two sets of the branch was the second of the document
W9_LatestIsSecond ==
    /\ last.op = "getLatest"
    /\ last.branch = "b1"
    /\ Len(getAllTabSets) = 2
    /\ Cardinality(OnBranch("b1")) = 2
    /\ last.out = <<getAllTabSets[2]>>

\* C10: initialize(location) creates the document {tabSets: [], favorites: []} only
\* when there is no file; a file that is there, holding TabSets or not, is left as
\* it is however often the location is initialized.
C10_InitializeKeepsData ==
    (last.op = "initialize" /\ ~last.threw) =>
        /\ storageFile # Null
        /\ ExistsSync(last.before) => file = last.before
        /\ ~ExistsSync(last.before) => file = JsonFile(EmptyData)

\* initialize found a document holding TabSets
W10_InitializedPopulated ==
    /\ last.op = "initialize" /\ ~last.threw
    /\ ExistsSync(last.before)
    /\ Len(getAllTabSets) = 2
    /\ file = last.before

\* the queries of the store that take no scope rule
PlainQueries == {"getAll", "getByBranch", "getFavorites", "getById", "getLatest"}

\* C11: a store operation called before initialize has bound a workspace location
\* fails with an error that reaches the caller; it does not return a normal result.
C11_UnboundCallRaises ==
    (last.op \notin {"none", "initialize"} /\ storageFile = Null) => last.threw

\* C12: when the document cannot be read or parsed (no path to read from, no file at
\* the path, text that is not JSON), readData gives the empty document and does not
\* raise, and getAll, getByBranch, getFavorites, getById and getLatestForBranch return
\* their empty or absent result.
C12_UnreadableIsEmpty ==
    (storageFile = Null \/ last.before.kind # "json") =>
        /\ ReadFrom(storageFile, last.before) = EmptyData
        /\ last.op \in PlainQueries => (last.out = <<>> /\ ~last.threw)

\* a query by id and a query by branch of an initialized store whose file is not JSON
W12_QueriedCorrupt ==
    /\ last.op \in {"getById", "getLatest"}
    /\ storageFile # Null
    /\ last.before = Corrupt
    /\ last.out = <<>>

\* the set at the index the last call's id found in the document it read
Targeted == BeforeData.tabSets[FindIndex(BeforeData.tabSets, last.id)]

\* C13: when the write of the document fails, the mutating operation does not raise
\* and returns its normal result: save the TabSet it built from its arguments, rename
\* true, toggleFavorite the negation of the set's isFavorite, delete true.
C13_FailedWriteReturnsNormally ==
    last.failed =>
        /\ ~last.threw
        /\ last.op \in {"save", "rename", "toggle", "delete"}
        /\ last.op = "save" =>
            /\ Len(last.out) = 1
            /\ last.out[1].name = last.given.name
            /\ last.out[1].isFavorite = last.given.isFavorite
            /\ SameTabs(last.out[1].tabs, last.given.tabs)
        /\ last.op = "rename" => (CalledOnExisting("rename") /\ last.ret = TRUE)
        /\ last.op = "toggle" =>
            (CalledOnExisting("toggle") /\ last.ret = ~IsFavorite(Targeted))
        /\ last.op = "delete" => (CalledOnExisting("delete") /\ last.ret = TRUE)

\* toggleFavorite of a set that was not a favorite returned true although the
\* initialized store could not write the file
W13_ToggleWriteFailed ==
    /\ last.op = "toggle" /\ last.failed
    /\ storageFile # Null
    /\ ~IsFavorite(Targeted)
    /\ last.ret = TRUE
    /\ file = last.before

\* C14: after a mutating operation of an initialized store whose write failed, the
\* mutation is in effect for
\* later queries of the same process: getAll and getById give the saved set, getById
\* gives the new name, getFavorites follows the toggle, getById no longer finds the
\* deleted set.
C14_FailedWriteStillInEffect ==
    (last.failed /\ storageFile # Null) =>
        /\ last.op = "save" =>
            /\ Includes(getAllTabSets, last.out[1])
            /\ getTabSetById(last.out[1].id) # <<>>
        /\ last.op = "rename" =>
            /\ getTabSetById(last.id) # <<>>
            /\ getTabSetById(last.id)[1].name = last.name
        /\ last.op = "toggle" =>
            (\E s \in Elems(getFavorites) : s.id = last.id) = last.ret
        /\ last.op = "delete" => getTabSetById(last.id) = <<>>

\* C15: whatever the file holds (nothing, text that is not JSON, JSON without the
\* tabSets or favorites array), no store operation raises an error to its caller,
\* except initialize called without a location.
C15_NoOperationRaises ==
    last.threw => last.op = "initialize"

\* obj without the given keys
Without(obj, keys) == [k \in DOMAIN obj \ keys |-> obj[k]]

\* the sets of the document the last call read, and of the document it left
SetsBefore == TabSetsOrEmpty(BeforeData)
SetsAfter == TabSetsOrEmpty(ReadData)

\* C16: rename changes only name and updatedAt of the targeted TabSet: its other
\* fields, every other TabSet and the favorites index are as before; and a TabSet
\* without a scope field has none after rename, toggleFavorite, or the save or delete
\* of another set.
C16_RenameFrame ==
    /\ CalledOnExisting("rename") =>
        LET i == FindIndex(SetsBefore, last.id)
        IN /\ Len(SetsAfter) = Len(SetsBefore)
           /\ \A j \in 1..Len(SetsBefore) : j # i => SetsAfter[j] = SetsBefore[j]
           /\ Without(SetsAfter[i], {"name", "updatedAt"})
                = Without(SetsBefore[i], {"name", "updatedAt"})
           /\ Without(ReadData, {"tabSets"}) = Without(BeforeData, {"tabSets"})
    /\ (last.op \in {"rename", "toggle", "save"} /\ ~last.threw) =>
        /\ Len(SetsAfter) >= Len(SetsBefore)
        /\ \A j \in 1..Len(SetsBefore) :
            ("scope" \in DOMAIN SetsAfter[j]) = ("scope" \in DOMAIN SetsBefore[j])
    /\ (last.op = "delete" /\ ~last.threw) =>
        /\ \A j \in 1..Len(SetsBefore) :
            SetsBefore[j].id # last.id => Includes(SetsAfter, SetsBefore[j])
        /\ \A j \in 1..Len(SetsAfter) : Includes(SetsBefore, SetsAfter[j])

\* a favorite set scoped to a branch was renamed, next to a set without a scope
W16_RenamedScoped ==
    /\ CalledOnExisting("rename")
    /\ Len(SetsAfter) = 2
    /\ Get(Targeted, "scope") = "branch"
    /\ Targeted.name # last.name
    /\ Includes(ReadData.favorites, last.id)
    /\ \E j \in 1..2 : "scope" \notin DOMAIN SetsAfter[j]

\* C18: in every state reachable by save, rename, toggleFavorite and delete, every
\* TabSet has updatedAt >= createdAt, and no operation changes the createdAt of a set
\* that is already in the document.
C18_UpdatedNotBeforeCreated ==
    /\ \A s \in Elems(getAllTabSets) : DateOf(s.updatedAt) >= DateOf(s.createdAt)
    /\ (last.op = "save" /\ ~last.threw) =>
        /\ DateOf(last.out[1].updatedAt) >= DateOf(last.out[1].createdAt)
        /\ Len(SetsAfter) >= Len(SetsBefore)
        /\ \A j \in 1..Len(SetsBefore) : SetsAfter[j] = SetsBefore[j]
    /\ (last.op \in {"rename", "toggle"} /\ ~last.threw) =>
        /\ Len(SetsAfter) = Len(SetsBefore)
        /\ \A j \in 1..Len(SetsBefore) : SetsAfter[j].createdAt = SetsBefore[j].createdAt
    /\ (last.op = "delete" /\ ~last.threw) =>
        \A j \in 1..Len(SetsAfter) : Includes(SetsBefore, SetsAfter[j])

\* a set created at one clock reading was renamed at a later one
W18_RenamedLater ==
    /\ CalledOnExisting("rename")
    /\ LET i == FindIndex(SetsBefore, last.id)
       IN /\ DateOf(SetsAfter[i].updatedAt) > DateOf(SetsAfter[i].createdAt)
          /\ SetsBefore[i].updatedAt = SetsBefore[i].createdAt
          /\ SetsAfter[i].createdAt = SetsBefore[i].createdAt

\* C19: the TabSet save returns has updatedAt equal to createdAt.
C19_StampsEqualAtCreation ==
    (last.op = "save" /\ ~last.threw) =>
        last.out[1].updatedAt = last.out[1].createdAt

\* C20: after rename(id, n) on an existing id the set's updatedAt is strictly later
\* than it was before the rename, also when the rename reads the same clock value as
\* the previous mutation of the set.
C20_RenameAdvancesUpdatedAt ==
    CalledOnExisting("rename") =>
        LET i == FindIndex(SetsBefore, last.id)
        IN DateOf(SetsAfter[i].updatedAt) > DateOf(SetsBefore[i].updatedAt)

\* c's write is the file's last, it replaced the write of o, and c had read the
\* document o had read and then changed
WroteOver(c, o) ==
    /\ c # o
    /\ contexts[c].pc = "done" /\ contexts[o].pc = "done"
    /\ contexts[c].latest
    /\ contexts[c].over = JsonFile(contexts[o].wrote)
    /\ contexts[c].data = contexts[o].data
    /\ contexts[o].wrote # contexts[o].data

\* C17: when two contexts on the same document each read the whole document and then
\* write the whole document, and both read before either writes, the update of the
\* first writer is lost: the final document is the document both read with the change
\* of the last writer only (of two sets saved, one is in it).
C17_LastWriteWins ==
    \A c, o \in Contexts :
        WroteOver(c, o) =>
            /\ file = JsonFile(Apply(contexts[c], contexts[c].data))
            /\ (contexts[c].op = "save" /\ contexts[o].op = "save") =>
                    Len(file.data.tabSets) = Len(contexts[c].data.tabSets) + 1

\* A and B read the empty document, A saved n1, then B saved n2: the file holds n2 only
W17_SaveLost ==
    /\ WroteOver("B", "A")
    /\ contexts["A"].op = "save" /\ contexts["A"].name = "n1"
    /\ contexts["B"].op = "save" /\ contexts["B"].name = "n2"
    /\ contexts["A"].data = EmptyData
    /\ Len(file.data.tabSets) = 1
    /\ file.data.tabSets[1].name = "n2"

\* the last call was a mutator of an initialized store that wrote the document
Wrote ==
    /\ last.op \in {"save", "rename", "toggle", "delete"}
    /\ ~last.threw /\ ~last.failed
    /\ storageFile # Null
    /\ file # last.before

\* the document the last call handed to writeData, from the document it read, its
\* arguments and result, and the stamp it left
Written ==
    LET i == FindIndex(SetsBefore, last.id)
    IN CASE last.op = "save" -> PushTabSet(BeforeData, last.out[1])
         [] last.op = "rename" ->
                RenameIn(BeforeData, i, last.name, DateOf(SetsAfter[i].updatedAt))
         [] last.op = "toggle" ->
                ToggleIn(BeforeData, i, last.id, DateOf(SetsAfter[i].updatedAt))
         [] last.op = "delete" -> DeleteIn(BeforeData, last.id)

C23_ProjectListIsBranchFree ==
    (last.op = "openList" /\ last.given.scopeFilter = "project") =>
        \A s \in Elems(last.out) :
            \A cb \in Branches \cup {Null} : VisibleByRule(s, cb)

\* the favorites of the list come before the others
FavoritesFirst(list) ==
    \A i, j \in 1..Len(list) :
        (IsFavorite(list[i]) /\ ~IsFavorite(list[j])) => i < j

\* the sets of the list that are both favorites or both not are newest first
NewestFirstInGroups(list) ==
    \A i, j \in 1..Len(list) :
        (i < j /\ IsFavorite(list[i]) = IsFavorite(list[j])) =>
            DateOf(list[i].updatedAt) >= DateOf(list[j].updatedAt)

\* the sets of the list are newest first
NewestFirst(list) ==
    \A i, j \in 1..Len(list) :
        i < j => DateOf(list[i].updatedAt) >= DateOf(list[j].updatedAt)

PersistedSets(f) ==
    IF f.kind \in {"json", "unreadable"} THEN TabSetsOrEmpty(f.data) ELSE <<>>

\* C26: only delete removes a TabSet: after save, rename or toggleFavorite every
\* TabSet that was in the persisted document before the call is still in it, also
\* when the read at the start of the call failed and gave the empty document.
C26_OnlyDeleteRemoves ==
    last.op \in {"save", "rename", "toggle"} =>
        \A s \in Elems(PersistedSets(last.before)) :
            \E r \in Elems(PersistedSets(file)) : r.id = s.id


\* the place of a step in the order scope choice, file selection, naming, favorite
\* choice, store save, close tabs
Rank(step) ==
    CASE step = "scope" -> 1 [] step = "files" -> 2 [] step = "name" -> 3
      [] step = "favorite" -> 4 [] step = "save" -> 5 [] step = "close" -> 6

\* the setting, and for the scope the branch, without which a prompt is not shown
Enabled(step, r) ==
    CASE step = "scope" -> host.config.enableGitBranchScoping /\ Truthy(r.currentBranch)
      [] step = "files" -> host.config.enableFileSelection
      [] step = "name" -> host.config.enableNaming
      [] step = "favorite" -> host.config.enableFavorites
      [] OTHER -> TRUE

\* the save commands in the slots
SaveCommands == {c \in Slots : commands[c].cmd = "save"}

\* C22: the save command takes its steps in the order scope choice, file selection,
\* naming, favorite choice, store save, close tabs; it shows a prompt only when the
\* prompt's setting is on (the scope prompt only when a branch was found as well); it
\* calls the store once, after the last prompt it showed; it closes no tab before the
\* store save returned.
C22_SaveStepsInOrder ==
    \A c \in SaveCommands :
        LET r == commands[c]
            n == Len(r.trace)
        IN /\ \A i \in 1..n, j \in 1..n :
                i < j => \/ Rank(r.trace[i]) < Rank(r.trace[j])
                         \/ r.trace[i] = "close" /\ r.trace[j] = "close"
           /\ \A i \in 1..n : Enabled(r.trace[i], r)
           /\ (r.pc = "closeTabsByUris" \/ r.message = "Saved" \/ r.closedCount > 0)
                => \E i \in 1..n : r.trace[i] = "save"

\* a save command showed all four prompts, saved, and closed both tabs
W22_AllStepsTaken ==
    commands["s1"].trace = <<"scope", "files", "name", "favorite", "save", "close", "close">>

\* C25: when the user dismisses a prompt of the save command (the scope prompt, the file
\* selection, also by selecting nothing, the name, the favorite prompt), the command is
\* over, tab-hero.json is as it was when the command started, and the tabs that were
\* open are open.
C25_CancelChangesNothing ==
    \A c \in SaveCommands :
        commands[c].cancelled =>
            /\ commands[c].pc = "done"
            /\ file = commands[c].atStart
            /\ host.tabs = commands[c].infos
            /\ commands[c].closedCount = 0

\* the user dismissed the favorite prompt, the last one, after answering three
W25_CancelledAtFavorite ==
    /\ commands["s1"].cancelled
    /\ commands["s1"].trace = <<"scope", "files", "name", "favorite">>

\* the tab set the store returned to the save command in slot c
SavedBy(c) == calls[commands[c].callNo].tabSet[1]

\* C27: when the save command closed tabs or reported success, the tab set it saved is
\* in tab-hero.json.
C27_ClosedOnlyWhenPersisted ==
    \A c \in SaveCommands :
        (commands[c].closedCount > 0 \/ commands[c].message = "Saved")
            => \E s \in Elems(PersistedSets(file)) : s.id = SavedBy(c).id

\* C30: a store save of the save command with scope "branch" has a branch that is not
\* null, and the scope is "project" when no branch was found or git branch scoping is
\* off.
C30_BranchScopeHasBranch ==
    last.op = "save" =>
        /\ last.given.scope = "branch" => last.given.branch \notin {Null, Undefined}
        /\ (~Truthy(host.branch) \/ ~host.config.enableGitBranchScoping)
                => last.given.scope = "project"

\* the command saved with scope "branch" after the user chose it
W30_SavedForBranch ==
    /\ last.op = "save"
    /\ last.given.scope = "branch"
    /\ last.given.branch = "b1"
    /\ \E c \in SaveCommands : commands[c].callNo = Len(calls) /\ commands[c].callNo > 0


\* the toggle-favorite commands whose store call is the last one any command made
ToggledLast ==
    {c \in Slots : /\ commands[c].cmd = "toggle"
                   /\ commands[c].callNo > 0
                   /\ commands[c].callNo = Len(calls)}

\* C28: the toggle-favorite command says "Added to favorites" only if the selected set
\* exists and is a favorite after the call, and "Removed from favorites" only if it
\* exists and is not a favorite after the call, also when a delete command removed the
\* set between the list and the pick.
C28_ToggleMessageIsTrue ==
    \A c \in ToggledLast :
        LET found == getTabSetById(commands[c].picked[1].id)
        IN /\ commands[c].message = "Added to favorites"
                => found # <<>> /\ IsFavorite(found[1])
           /\ commands[c].message = "Removed from favorites"
                => found # <<>> /\ ~IsFavorite(found[1])

RECURSIVE Replay(_)
\* the document the calls make of an empty one, one after the other
Replay(log) ==
    IF log = <<>> THEN EmptyData
    ELSE Apply(log[Len(log)], Replay(SubSeq(log, 1, Len(log) - 1)))

\* C29: tab-hero.json holds the document that the mutating store calls of the commands
\* make one after the other, in the order of the calls: no call is lost to a command that
\* was suspended around it.
C29_NoLostUpdate == ReadData = Replay(calls)

\* a rename command showed its list, a toggle-favorite command then made the set a
\* favorite, and the rename that followed kept that
W29_RenameAfterToggle ==
    \E c \in Slots, d \in Slots :
        /\ commands[c].cmd = "rename" /\ commands[c].message = "Renamed"
        /\ commands[d].cmd = "toggle" /\ commands[d].callNo = commands[c].callNo - 1
        /\ commands[d].message = "Added to favorites"
        /\ ~IsFavorite(commands[c].picked[1])
        /\ commands[c].callNo = Len(calls)
        /\ \E s \in Elems(SetsAfter) : s.name = "n2" /\ IsFavorite(s)

====
